---- MODULE Spec2Model ----
(***************************************************************************)
(* StakesStore (core/src/stores/stakes_store.rs): a snapshot of validator  *)
(* stakes behind a tokio RwLock.  update_stakes parses, sorts and          *)
(* summarises a vote-account report outside the lock and then assigns the  *)
(* three fields of StakeData under the write lock; the read operations     *)
(* copy out of the snapshot under the read lock.                           *)
(***************************************************************************)
EXTENDS Integers, Sequences, FiniteSets, TLC

\* ------------------------------------------------------------------ bounds

\* Largest number of records (current plus delinquent) in a report of SpecFn.
MaxRecords == 3
\* Largest number of records in a report of Spec.
MaxRecordsConc == 2
\* Largest number of records in a report of SpecRace.
MaxRecordsRace == 1

\* ------------------------------------------------------------- u64 values
\* TLC integers are 32 bits wide, so a u64 is held as four 16-bit limbs, most
\* significant first; addition carries from limb to limb and the carry out of
\* the top limb is the overflow of the 64-bit addition.

LimbBase == 2 ^ 16

u64(n) == <<0, 0, 0, n>>

U64_ZERO == u64(0)

\* 2^63
U64_HALF == <<32768, 0, 0, 0>>

u64_add(a, b) ==
    LET s4 == a[4] + b[4]
        s3 == a[3] + b[3] + (s4 \div LimbBase)
        s2 == a[2] + b[2] + (s3 \div LimbBase)
        s1 == a[1] + b[1] + (s2 \div LimbBase)
    IN  [value    |-> <<s1 % LimbBase, s2 % LimbBase, s3 % LimbBase, s4 % LimbBase>>,
         overflow |-> s1 \div LimbBase > 0]

u64_lt(a, b) ==
    \/ a[1] < b[1]
    \/ a[1] = b[1] /\ a[2] < b[2]
    \/ a[1] = b[1] /\ a[2] = b[2] /\ a[3] < b[3]
    \/ a[1] = b[1] /\ a[2] = b[2] /\ a[3] = b[3] /\ a[4] < b[4]

u64_le(a, b) == a = b \/ u64_lt(a, b)

\* ------------------------------------------------------------- identities

\* Pubkey values; the strings a report may carry in node_pubkey.  "A", "B" and
\* "C" stand for the base58 encodings of three keys, "0" is no base58 text.
Pubkeys == {1, 2, 3}

NodePubkeyStrings == {"A", "B", "C", "0"}

\* Pubkey::from_str: Ok(key) for an encoding, Err(ParsePubkeyError) otherwise.
Pubkey_from_str(s) ==
    CASE s = "A" -> [ok |-> TRUE, pk |-> 1]
      [] s = "B" -> [ok |-> TRUE, pk |-> 2]
      [] s = "C" -> [ok |-> TRUE, pk |-> 3]
      [] OTHER   -> [ok |-> FALSE]

\* ------------------------------------------------------------------ types

\* (C10 mutant: a Default written by hand with min_stakes at u64::MAX)
StakeSummary_default_min_at_max ==
    [total_stakes |-> U64_ZERO,
     min_stakes   |-> <<65535, 65535, 65535, 65535>>,
     max_stakes   |-> U64_ZERO]

StakeSummary_default ==
    [total_stakes |-> U64_ZERO, min_stakes |-> U64_ZERO, max_stakes |-> U64_ZERO]

EmptyMap == [k \in {} |-> U64_ZERO]

StakeData_default ==
    [identity_to_stake |-> EmptyMap,
     stakes_desc       |-> <<>>,
     summary           |-> StakeSummary_default]

\* IdentityStakesData::default(): peer type Unstaked and all amounts 0.
IdentityStakesData_default ==
    [peer_type    |-> "Unstaked",
     stakes       |-> U64_ZERO,
     total_stakes |-> U64_ZERO,
     min_stakes   |-> U64_ZERO,
     max_stakes   |-> U64_ZERO]

\* ------------------------------------------- the computation of update_stakes

\* current.iter().chain(delinquent.iter())
Chain(vote_accounts) == vote_accounts.current \o vote_accounts.delinquent

\* (C2 mutant: records that do not parse are skipped, as with filter_map)
ParseAll_skipping_bad(vas) ==
    LET good == SelectSeq(vas, LAMBDA va : Pubkey_from_str(va.node_pubkey).ok)
    IN  [ok |-> TRUE,
         vec |-> [i \in 1..Len(good) |->
                    <<Pubkey_from_str(good[i].node_pubkey).pk, good[i].activated_stake>>]]

\* .map(|va| Ok((Pubkey::from_str(&va.node_pubkey)?, va.activated_stake)))
\* .collect::<Result<Vec<_>, ParsePubkeyError>>(): the first Err ends it.
ParseAll(vas) ==
    IF \E i \in 1..Len(vas) : ~Pubkey_from_str(vas[i].node_pubkey).ok
    THEN [ok |-> FALSE]
    ELSE [ok |-> TRUE,
          vec |-> [i \in 1..Len(vas) |->
                     <<Pubkey_from_str(vas[i].node_pubkey).pk, vas[i].activated_stake>>]]

\* (C6 mutant: the record goes in front of the records of equal stake)
InsertAt_before_equal(sorted, s) ==
    IF \E i \in 1..Len(sorted) : u64_le(sorted[i][2], s)
    THEN CHOOSE i \in 1..Len(sorted) :
            /\ u64_le(sorted[i][2], s)
            /\ \A j \in 1..(i - 1) : ~u64_le(sorted[j][2], s)
    ELSE Len(sorted) + 1

\* The place a record of stake s takes in a sequence sorted by Reverse(stake):
\* behind every record whose stake is greater than or equal to s.
InsertAt(sorted, s) ==
    IF \E i \in 1..Len(sorted) : u64_lt(sorted[i][2], s)
    THEN CHOOSE i \in 1..Len(sorted) :
            /\ u64_lt(sorted[i][2], s)
            /\ \A j \in 1..(i - 1) : ~u64_lt(sorted[j][2], s)
    ELSE Len(sorted) + 1

RECURSIVE SortFrom(_, _, _)
SortFrom(vec, i, sorted) ==
    IF i > Len(vec) THEN sorted
    ELSE LET p == InsertAt(sorted, vec[i][2])
         IN  SortFrom(vec, i + 1,
                      SubSeq(sorted, 1, p - 1) \o <<vec[i]>> \o SubSeq(sorted, p, Len(sorted)))

\* (C5 mutant: sorted by stake, without Reverse)
sort_by_key_ascending(vec) ==
    LET d == SortFrom(vec, 1, <<>>)
    IN  [i \in 1..Len(d) |-> d[Len(d) + 1 - i]]

\* (C19 mutant: after the sort only the first record of each key is kept)
sort_by_key_Reverse_dedup(vec) ==
    LET d    == SortFrom(vec, 1, <<>>)
        keep == {i \in 1..Len(d) : \A j \in 1..(i - 1) : d[j][1] # d[i][1]}
    IN  [n \in 1..Cardinality(keep) |->
            d[CHOOSE i \in keep : Cardinality({j \in keep : j <= i}) = n]]

\* stakes_desc.sort_by_key(|(_pk, stake)| Reverse(*stake)): a stable sort.
sort_by_key_Reverse(vec) == SortFrom(vec, 1, <<>>)

\* (C14 mutant: the first record of a key is kept, as with entry().or_insert())
MapInsert_keeping_first(m, k, v) ==
    [x \in DOMAIN m \cup {k} |-> IF x \in DOMAIN m THEN m[x] ELSE v]

\* HashMap::insert
MapInsert(m, k, v) == [x \in DOMAIN m \cup {k} |-> IF x = k THEN v ELSE m[x]]

RECURSIVE CollectFrom(_, _, _)
CollectFrom(vec, i, m) ==
    IF i > Len(vec) THEN m
    ELSE CollectFrom(vec, i + 1, MapInsert(m, vec[i][1], vec[i][2]))

\* stakes_desc.iter().copied().collect::<HashMap<_, _>>(): a later record of a
\* key replaces an earlier one.
collect_HashMap(vec) == CollectFrom(vec, 1, EmptyMap)

\* id_to_stake.values().sum(): a fold of u64 additions from 0.
RECURSIVE SumFrom(_, _, _)
SumFrom(m, keys, acc) ==
    IF keys = {} THEN acc
    ELSE LET k == CHOOSE x \in keys : TRUE
             r == u64_add(acc.value, m[k])
         IN  SumFrom(m, keys \ {k},
                     [value |-> r.value, overflow |-> acc.overflow \/ r.overflow])

values_sum(m) == SumFrom(m, DOMAIN m, [value |-> U64_ZERO, overflow |-> FALSE])

\* (C4 mutant: the minimum folded from 0)
values_min_folded_from_zero(m) == U64_ZERO

\* id_to_stake.values().min().copied().unwrap_or(0)
values_min(m) ==
    IF DOMAIN m = {} THEN U64_ZERO
    ELSE LET k == CHOOSE x \in DOMAIN m : \A y \in DOMAIN m : u64_le(m[x], m[y])
         IN  m[k]

\* (C9 mutant: u64::MAX for no values, as with unwrap_or(u64::MAX))
values_max_or_u64_max(m) ==
    IF DOMAIN m = {} THEN <<65535, 65535, 65535, 65535>>
    ELSE LET k == CHOOSE x \in DOMAIN m : \A y \in DOMAIN m : u64_le(m[y], m[x])
         IN  m[k]

\* id_to_stake.values().max().copied().unwrap_or(0)
values_max(m) ==
    IF DOMAIN m = {} THEN U64_ZERO
    ELSE LET k == CHOOSE x \in DOMAIN m : \A y \in DOMAIN m : u64_le(m[y], m[x])
         IN  m[k]

StakeSummary_of(m) ==
    [total_stakes |-> values_sum(m).value,
     min_stakes   |-> values_min(m),
     max_stakes   |-> values_max(m)]


\* One successful computation of update_stakes, as the three locals it assigns.
StakeData_of(vec) ==
    LET sorted == sort_by_key_Reverse(vec)
        m      == collect_HashMap(sorted)
    IN  [identity_to_stake |-> m,
         stakes_desc       |-> sorted,
         summary           |-> StakeSummary_of(m)]

\* ----------------------------------------------------------------- inputs

\* Processes: the tasks calling update_stakes and the tasks calling the reads.
Updaters == {"u1", "u2"}
Readers == {"r1", "r2"}

SeqsUpTo(S, n) == UNION {[1..k -> S] : k \in 0..n}

\* RpcVoteAccountStatus values with at most n records in current and
\* delinquent together.
Reports(strings, stakes, n) ==
    LET recs == [node_pubkey : strings, activated_stake : stakes]
    IN  {[current    |-> SubSeq(p[1], 1, p[2]),
          delinquent |-> SubSeq(p[1], p[2] + 1, Len(p[1]))] :
            p \in {q \in SeqsUpTo(recs, n) \X (0..n) : q[2] <= Len(q[1])}}

StakesFn == {u64(100), u64(300), U64_HALF}
StakesConc == {U64_ZERO, u64(100)}
StringsConc == {"A", "0"}
\* The key of "A" and a key no report of Spec and SpecRace carries.
PubkeysConc == {1, 2}

ReportsFn == Reports(NodePubkeyStrings, StakesFn, MaxRecords)
ReportsConc == Reports(StringsConc, StakesConc, MaxRecordsConc)
ReportsRace == Reports(StringsConc, StakesConc, MaxRecordsRace)
\* The reports of SpecLive: every stake is 100 and no record is delinquent.
ReportsLive ==
    {va \in Reports(StringsConc, {u64(100)}, MaxRecordsRace) : va.delinquent = <<>>}
\* The reports of SpecTwo: keys A and B, every stake 100, no record delinquent.
ReportsTwo ==
    {va \in Reports({"A", "B"}, {u64(100)}, MaxRecordsRace) : va.delinquent = <<>>}

ReadOps ==
    {"get_summary", "get_identity_stakes", "get_node_stake",
     "get_stake_per_node", "get_all_stakes_desc"}

None == [some |-> FALSE]
Some(v) == [some |-> TRUE, value |-> v]

\* ------------------------------------------------------------------ state

VARIABLES
    own_identity,     \* StakesStore.own_identity
    data,             \* the StakeData inside StakesStore.data
    lock,             \* the RwLock around it: writer, readers, queue of waiting tasks
    up,               \* per updater: position in update_stakes, its argument and
                      \* locals, the outcome of its last call
    rd,               \* per reader: position, operation, argument, last returned value
    installed         \* history: the task whose update_stakes call completed last
                      \* ("new" before the first) and the StakeData it computed

vars == <<own_identity, data, lock, up, rd, installed>>

NoReport == [current |-> <<>>, delinquent |-> <<>>]

\* An updater outside update_stakes: no locals, the outcome of its last call.
UpIdle(status) ==
    [pc |-> "idle", vote_accounts |-> NoReport, stakes_desc |-> <<>>,
     id_to_stake |-> EmptyMap, summary |-> StakeSummary_default, status |-> status]

RdIdle(ret) == [pc |-> "idle", op |-> "none", arg |-> 0, ret |-> ret]

NoRet == [op |-> "none"]

\* ------------------------------------------------------------- the RwLock
\* tokio::sync::RwLock: shared read access, exclusive write access, and a
\* first-in first-out queue of waiting tasks; a task that finds the queue
\* non-empty or the lock held incompatibly joins the queue.

LockFree == [writer |-> None, readers |-> {}, waiters |-> <<>>]

\* (C1 mutant: read access granted although a task holds write access)
read_grantable_while_written(l) == TRUE

\* (C11 mutant: read access is exclusive too, as with a Mutex)
read_grantable_exclusive(l) == l.writer = None /\ l.readers = {}

read_grantable(l) == l.writer = None

write_grantable(l) == l.writer = None /\ l.readers = {}

\* self.data.read().await, up to the first poll
read_request(l, r) ==
    IF l.waiters = <<>> /\ read_grantable(l)
    THEN [l EXCEPT !.readers = @ \cup {r}]
    ELSE [l EXCEPT !.waiters = Append(@, r)]

\* self.data.write().await, up to the first poll
write_request(l, u) ==
    IF l.waiters = <<>> /\ write_grantable(l)
    THEN [l EXCEPT !.writer = Some(u)]
    ELSE [l EXCEPT !.waiters = Append(@, u)]

\* Releasing hands the lock to the waiting tasks in queue order, as far as
\* they are compatible.
\* (C12 mutant: a release that wakes no waiting task)
wake_nobody(l) == l

RECURSIVE wake(_)
wake(l) ==
    IF l.waiters = <<>> THEN l
    ELSE LET h == Head(l.waiters)
         IN  IF h \in Readers
             THEN IF read_grantable(l)
                  THEN wake([l EXCEPT !.readers = @ \cup {h}, !.waiters = Tail(@)])
                  ELSE l
             ELSE IF write_grantable(l)
                  THEN [l EXCEPT !.writer = Some(h), !.waiters = Tail(@)]
                  ELSE l

\* drop of the RwLockReadGuard
read_release(l, r) == wake([l EXCEPT !.readers = @ \ {r}])

\* drop of the RwLockWriteGuard
write_release(l) == wake([l EXCEPT !.writer = None])


\* ------------------------------------------------------------ update_stakes

\* (C15 mutant: the new mapping is merged into the old one, as with extend())
write_identity_to_stake_merging(u) ==
    /\ up[u].pc = "write_identity_to_stake"
    /\ lock.writer = Some(u)
    /\ data' = [data EXCEPT !.identity_to_stake =
                  [k \in DOMAIN @ \cup DOMAIN up[u].id_to_stake |->
                      IF k \in DOMAIN up[u].id_to_stake THEN up[u].id_to_stake[k] ELSE @[k]]]
    /\ up' = [up EXCEPT ![u].pc = "write_stakes_desc"]
    /\ UNCHANGED <<own_identity, lock, rd, installed>>

\* (C13 mutant: write access is asked for on entry, before the report is parsed)
update_stakes_locking_first(u, vote_accounts) ==
    /\ up[u].pc = "idle"
    /\ lock' = write_request(lock, u)
    /\ up' = [up EXCEPT ![u] =
                [pc            |-> "write_summary",
                 vote_accounts |-> vote_accounts,
                 stakes_desc   |-> <<>>,
                 id_to_stake   |-> EmptyMap,
                 summary       |-> StakeSummary_default,
                 status        |-> "running"]]
    /\ UNCHANGED <<own_identity, data, rd, installed>>

\* update_stakes up to `self.data.write().await`: parse (return on the first
\* bad pubkey), sort, collect, summarise.  The u64 sum panics on overflow in a
\* build with overflow checks and wraps in one without: overflow_checks is
\* either.  Nothing of this touches the store, so it is one step.
update_stakes(u, vote_accounts) ==
    /\ up[u].pc = "idle"
    /\ \E overflow_checks \in BOOLEAN :
       LET parsed == ParseAll(Chain(vote_accounts))
       IN  IF ~parsed.ok
           THEN up' = [up EXCEPT ![u] = UpIdle("bad_pubkey")]
           ELSE LET sd == StakeData_of(parsed.vec)
                IN  IF overflow_checks /\ values_sum(sd.identity_to_stake).overflow
                    THEN up' = [up EXCEPT ![u] = UpIdle("panicked")]
                    ELSE up' = [up EXCEPT ![u] =
                                  [pc            |-> "data_write",
                                   vote_accounts |-> vote_accounts,
                                   stakes_desc   |-> sd.stakes_desc,
                                   id_to_stake   |-> sd.identity_to_stake,
                                   summary       |-> sd.summary,
                                   status        |-> "running"]]
    /\ UNCHANGED <<own_identity, data, lock, rd, installed>>

\* let mut write_lock = self.data.write().await, first poll: the task takes
\* write access or joins the queue.
data_write(u) ==
    /\ up[u].pc = "data_write"
    /\ lock' = write_request(lock, u)
    /\ up' = [up EXCEPT ![u].pc = "write_summary"]
    /\ UNCHANGED <<own_identity, data, rd, installed>>

\* (C17 mutant: the summary is assigned without waiting for write access)
write_summary_without_access(u) ==
    /\ up[u].pc = "write_summary"
    /\ data' = [data EXCEPT !.summary = up[u].summary]
    /\ up' = [up EXCEPT ![u].pc = "write_identity_to_stake"]
    /\ UNCHANGED <<own_identity, lock, rd, installed>>

\* write_lock.summary = summary
write_summary(u) ==
    /\ up[u].pc = "write_summary"
    /\ lock.writer = Some(u)
    /\ data' = [data EXCEPT !.summary = up[u].summary]
    /\ up' = [up EXCEPT ![u].pc = "write_identity_to_stake"]
    /\ UNCHANGED <<own_identity, lock, rd, installed>>

\* write_lock.identity_to_stake = id_to_stake
write_identity_to_stake(u) ==
    /\ up[u].pc = "write_identity_to_stake"
    /\ lock.writer = Some(u)
    /\ data' = [data EXCEPT !.identity_to_stake = up[u].id_to_stake]
    /\ up' = [up EXCEPT ![u].pc = "write_stakes_desc"]
    /\ UNCHANGED <<own_identity, lock, rd, installed>>

\* write_lock.stakes_desc = stakes_desc, and the guard dropped on return
write_stakes_desc(u) ==
    /\ up[u].pc = "write_stakes_desc"
    /\ lock.writer = Some(u)
    /\ data' = [data EXCEPT !.stakes_desc = up[u].stakes_desc]
    /\ lock' = write_release(lock)
    /\ up' = [up EXCEPT ![u] = UpIdle("ok")]
    /\ installed' = [by   |-> u,
                      data |-> [identity_to_stake |-> up[u].id_to_stake,
                                stakes_desc       |-> up[u].stakes_desc,
                                summary           |-> up[u].summary]]
    /\ UNCHANGED <<own_identity, rd>>

\* -------------------------------------------------------- read operations

\* `self.data.read().await`, first poll
read_begin(r, op, arg) ==
    /\ rd[r].pc = "idle"
    /\ rd' = [rd EXCEPT ![r] = [pc |-> "read", op |-> op, arg |-> arg, ret |-> NoRet]]
    /\ lock' = read_request(lock, r)
    /\ UNCHANGED <<own_identity, data, up, installed>>

\* with read access: copy the value out, drop the guard, return
read_end(r, op, value) ==
    /\ rd[r].pc = "read"
    /\ rd[r].op = op
    /\ r \in lock.readers
    /\ rd' = [rd EXCEPT ![r] = RdIdle([op |-> op, arg |-> rd[r].arg, value |-> value])]
    /\ lock' = read_release(lock, r)
    /\ UNCHANGED <<own_identity, data, up, installed>>

\* (C7 mutant: the summary is filled in whether or not the owner has a stake)
IdentityStakes_with_summary(d, identity) ==
    IF identity \in DOMAIN d.identity_to_stake
    THEN [peer_type    |-> "Staked",
          stakes       |-> d.identity_to_stake[identity],
          total_stakes |-> d.summary.total_stakes,
          min_stakes   |-> d.summary.min_stakes,
          max_stakes   |-> d.summary.max_stakes]
    ELSE [peer_type    |-> "Unstaked",
          stakes       |-> U64_ZERO,
          total_stakes |-> d.summary.total_stakes,
          min_stakes   |-> d.summary.min_stakes,
          max_stakes   |-> d.summary.max_stakes]

\* (C16 mutant: the peer type follows the amount: Staked for a stake above 0)
IdentityStakes_by_amount(d, identity) ==
    IF identity \in DOMAIN d.identity_to_stake /\ d.identity_to_stake[identity] # U64_ZERO
    THEN [peer_type    |-> "Staked",
          stakes       |-> d.identity_to_stake[identity],
          total_stakes |-> d.summary.total_stakes,
          min_stakes   |-> d.summary.min_stakes,
          max_stakes   |-> d.summary.max_stakes]
    ELSE IdentityStakesData_default

\* own_stake.map(|stake| IdentityStakesData {..}).unwrap_or_default()
IdentityStakes_of(d, identity) ==
    IF identity \in DOMAIN d.identity_to_stake
    THEN [peer_type    |-> "Staked",
          stakes       |-> d.identity_to_stake[identity],
          total_stakes |-> d.summary.total_stakes,
          min_stakes   |-> d.summary.min_stakes,
          max_stakes   |-> d.summary.max_stakes]
    ELSE IdentityStakesData_default

\* (C8 mutant: a miss answered with a stake of 0, as with unwrap_or_default)
NodeStake_zero_on_miss(d, identity) ==
    IF identity \in DOMAIN d.identity_to_stake
    THEN Some(d.identity_to_stake[identity])
    ELSE Some(U64_ZERO)

\* identity_to_stake.get(identity).cloned()
NodeStake_of(d, identity) ==
    IF identity \in DOMAIN d.identity_to_stake
    THEN Some(d.identity_to_stake[identity])
    ELSE None

get_summary(r) ==
    \/ read_begin(r, "get_summary", 0)
    \/ read_end(r, "get_summary", data.summary)

get_identity_stakes(r) ==
    \/ read_begin(r, "get_identity_stakes", 0)
    \/ read_end(r, "get_identity_stakes", IdentityStakes_of(data, own_identity))

\* (C18 mutant: the lookup goes to a copy of the snapshot taken at construction)
get_node_stake_in_copy(r, identity) ==
    \/ read_begin(r, "get_node_stake", identity)
    \/ /\ rd[r].arg = identity
       /\ read_end(r, "get_node_stake", NodeStake_of(StakeData_default, identity))

get_node_stake(r, identity) ==
    \/ read_begin(r, "get_node_stake", identity)
    \/ /\ rd[r].arg = identity
       /\ read_end(r, "get_node_stake", NodeStake_of(data, identity))

get_stake_per_node(r) ==
    \/ read_begin(r, "get_stake_per_node", 0)
    \/ read_end(r, "get_stake_per_node", data.identity_to_stake)

get_all_stakes_desc(r) ==
    \/ read_begin(r, "get_all_stakes_desc", 0)
    \/ read_end(r, "get_all_stakes_desc", data.stakes_desc)

\* --------------------------------------------------------- specifications

\* StakesStore::new(identity)
Init ==
    /\ own_identity \in PubkeysConc
    /\ data = StakeData_default
    /\ lock = LockFree
    /\ up = [u \in Updaters |-> UpIdle("none")]
    /\ rd = [r \in Readers |-> RdIdle(NoRet)]
    /\ installed = [by |-> "new", data |-> StakeData_default]

\* One task calling update_stakes again and again, one task calling the read
\* operations again and again.
Next ==
    \/ /\ up["u1"].pc = "idle"
       /\ \E va \in ReportsConc : update_stakes("u1", va)
    \/ data_write("u1")
    \/ write_summary("u1")
    \/ write_identity_to_stake("u1")
    \/ write_stakes_desc("u1")
    \/ get_summary("r1")
    \/ get_identity_stakes("r1")
    \/ \E identity \in PubkeysConc : get_node_stake("r1", identity)
    \/ get_stake_per_node("r1")
    \/ get_all_stakes_desc("r1")

Spec == Init /\ [][Next]_vars

\* One task calling update_stakes again and again while two tasks call
\* get_summary and get_identity_stakes.
NextRace ==
    \/ /\ up["u1"].pc = "idle"
       /\ \E va \in ReportsRace : update_stakes("u1", va)
    \/ data_write("u1")
    \/ write_summary("u1")
    \/ write_identity_to_stake("u1")
    \/ write_stakes_desc("u1")
    \/ \E r \in Readers : get_summary(r)
    \/ \E r \in Readers : get_identity_stakes(r)

SpecRace == Init /\ [][NextRace]_vars

\* The first call of update_stakes on a new store, by one task: reports of up
\* to MaxRecords records over three keys and the stakes 100, 300 and 2^63.
InitFn ==
    /\ Init
    /\ own_identity = 1

NextFn ==
    \/ /\ up["u1"].status = "none"
       /\ \E va \in ReportsFn : update_stakes("u1", va)
    \/ data_write("u1")
    \/ write_summary("u1")
    \/ write_identity_to_stake("u1")
    \/ write_stakes_desc("u1")

SpecFn == InitFn /\ [][NextFn]_vars

\* Two tasks calling update_stakes and two tasks calling get_summary, again
\* and again.  A task inside an operation is scheduled again by the runtime
\* whenever it can run (weak fairness of its steps); no task is obliged to
\* start an operation.
NextLive ==
    \/ \E u \in Updaters :
          /\ up[u].pc = "idle"
          /\ \E va \in ReportsLive : update_stakes(u, va)
    \/ \E u \in Updaters : data_write(u)
    \/ \E u \in Updaters : write_summary(u)
    \/ \E u \in Updaters : write_identity_to_stake(u)
    \/ \E u \in Updaters : write_stakes_desc(u)
    \/ \E r \in Readers : get_summary(r)

UpdaterStep(u) ==
    \/ data_write(u)
    \/ write_summary(u)
    \/ write_identity_to_stake(u)
    \/ write_stakes_desc(u)

SpecLive ==
    /\ Init
    /\ [][NextLive]_vars
    /\ \A u \in Updaters : WF_vars(UpdaterStep(u))
    /\ \A r \in Readers : WF_vars(read_end(r, "get_summary", data.summary))

\* Two tasks calling update_stakes again and again, with reports over two
\* keys, while one task calls get_node_stake.
NextTwo ==
    \/ \E u \in Updaters :
          /\ up[u].pc = "idle"
          /\ \E va \in ReportsTwo : update_stakes(u, va)
    \/ \E u \in Updaters : data_write(u)
    \/ \E u \in Updaters : write_summary(u)
    \/ \E u \in Updaters : write_identity_to_stake(u)
    \/ \E u \in Updaters : write_stakes_desc(u)
    \/ \E identity \in PubkeysConc : get_node_stake("r1", identity)

SpecTwo == InitFn /\ [][NextTwo]_vars


\* ================================================================= claims

\* What a read operation returns on the snapshot d.
View(op, arg, d) ==
    CASE op = "get_summary"         -> d.summary
      [] op = "get_identity_stakes" -> IdentityStakes_of(d, own_identity)
      [] op = "get_node_stake"      -> NodeStake_of(d, arg)
      [] op = "get_stake_per_node"  -> d.identity_to_stake
      [] op = "get_all_stakes_desc" -> d.stakes_desc

\* The step in which reader r returns.
Returns(r) == rd[r].pc = "read" /\ rd'[r].pc = "idle"

\* A snapshot readers can observe: no task holds write access.
Observable == lock.writer = None

\* C1: whenever a reader holds read access, the three fields of the snapshot
\* are those computed by one update_stakes call (the last one completed), and
\* every value a read returns is taken from that one snapshot: never from a
\* snapshot of which only some fields have been assigned.
C1_ReadsSeeOneSnapshot ==
    /\ [](\A r \in Readers : r \in lock.readers => data = installed.data)
    /\ [][\A r \in Readers :
            Returns(r) =>
                rd'[r].ret.value = View(rd[r].op, rd[r].arg, installed.data)]_vars

\* C1 witness: a reader has returned the summary of the snapshot installed by
\* an earlier call while the next call, holding the write lock, has assigned
\* only part of the fields and the other reader is kept waiting.
C1_Witness ==
    /\ \E r \in Readers :
          /\ rd[r].ret.op = "get_summary"
          /\ rd[r].ret.value = installed.data.summary
          /\ installed.data.summary # StakeSummary_default
    /\ \E r \in Readers : rd[r].pc = "read" /\ r \notin lock.readers
    /\ data.summary # installed.data.summary
    /\ data.identity_to_stake = installed.data.identity_to_stake

\* A report with a node_pubkey that is no encoding of a key.
HasBadPubkey(va) ==
    \E i \in 1..Len(Chain(va)) : ~Pubkey_from_str(Chain(va)[i].node_pubkey).ok

\* C2: a call of update_stakes whose report holds a string that does not
\* parse, in current or delinquent, installs nothing: no call that is past the
\* parsing carries such a report, and a call that returns from the parsing
\* leaves the snapshot and the lock as they were.
C2_BadPubkeyInstallsNothing ==
    /\ [](up["u1"].pc # "idle" => ~HasBadPubkey(up["u1"].vote_accounts))
    /\ [][(up["u1"].pc = "idle" /\ up'["u1"].pc = "idle" /\ up' # up) =>
             /\ up'["u1"].status \in {"bad_pubkey", "panicked"}
             /\ data' = data
             /\ installed' = installed
             /\ lock' = lock]_vars

\* C2 witness: the last call returned on a bad pubkey while a snapshot of an
\* earlier call is installed, and it still is.
C2_Witness ==
    /\ up["u1"].status = "bad_pubkey"
    /\ installed.by = "u1"
    /\ data = installed.data
    /\ data.stakes_desc # <<>>


\* The sum of the values of m as a number, not reduced modulo 2^64: five limbs.
wide(a) == <<0>> \o a

wide_add(a, b) ==
    LET s5 == a[5] + b[5]
        s4 == a[4] + b[4] + (s5 \div LimbBase)
        s3 == a[3] + b[3] + (s4 \div LimbBase)
        s2 == a[2] + b[2] + (s3 \div LimbBase)
        s1 == a[1] + b[1] + (s2 \div LimbBase)
    IN  <<s1, s2 % LimbBase, s3 % LimbBase, s4 % LimbBase, s5 % LimbBase>>

RECURSIVE WideSumFrom(_, _, _)
WideSumFrom(m, keys, acc) ==
    IF keys = {} THEN acc
    ELSE LET k == CHOOSE x \in keys : TRUE
         IN  WideSumFrom(m, keys \ {k}, wide_add(acc, wide(m[k])))

WideSum(m) == WideSumFrom(m, DOMAIN m, wide(U64_ZERO))

\* C3: in every snapshot a reader can observe, summary.total_stakes is the sum
\* of the values of identity_to_stake.
C3_TotalIsSumOfMapping ==
    Observable => wide(data.summary.total_stakes) = WideSum(data.identity_to_stake)

\* C4: in every snapshot a reader can observe, min_stakes and max_stakes are
\* 0 for an empty mapping and otherwise bound every value of the mapping and
\* are each the value of some key.
C4_MinMaxBoundMapping ==
    Observable =>
        LET m  == data.identity_to_stake
            sm == data.summary
        IN  IF DOMAIN m = {}
            THEN sm.min_stakes = U64_ZERO /\ sm.max_stakes = U64_ZERO
            ELSE /\ \A k \in DOMAIN m :
                       u64_le(sm.min_stakes, m[k]) /\ u64_le(m[k], sm.max_stakes)
                 /\ \E k \in DOMAIN m : m[k] = sm.min_stakes
                 /\ \E k \in DOMAIN m : m[k] = sm.max_stakes

\* C4 witness: an installed snapshot of three keys with three different
\* stakes, min_stakes 100 and max_stakes 2^63.
C4_Witness ==
    /\ Observable
    /\ up["u1"].status = "ok"
    /\ Cardinality(DOMAIN data.identity_to_stake) = 3
    /\ data.summary.min_stakes = u64(100)
    /\ data.summary.max_stakes = U64_HALF
    /\ \E k \in DOMAIN data.identity_to_stake : data.identity_to_stake[k] = u64(300)

\* C5: in every snapshot a reader can observe, stakes_desc (what
\* get_all_stakes_desc copies) is non-increasing in stake from each position
\* to the next.
C5_StakesDescSorted ==
    Observable =>
        \A i \in 1..(Len(data.stakes_desc) - 1) :
            u64_le(data.stakes_desc[i + 1][2], data.stakes_desc[i][2])

\* C5 witness: an installed sequence of three records of strictly falling
\* stake.
C5_Witness ==
    /\ Observable
    /\ up["u1"].status = "ok"
    /\ Len(data.stakes_desc) = 3
    /\ u64_lt(data.stakes_desc[2][2], data.stakes_desc[1][2])
    /\ u64_lt(data.stakes_desc[3][2], data.stakes_desc[2][2])

\* out is input rearranged by a permutation that puts greater stakes first and
\* keeps records of equal stake in their input order.
StableRanking(out, input) ==
    /\ Len(out) = Len(input)
    /\ \E p \in Permutations(1..Len(input)) :
          /\ \A i \in 1..Len(out) : out[i] = input[p[i]]
          /\ \A i, j \in 1..Len(out) :
                i < j => \/ u64_lt(out[j][2], out[i][2])
                         \/ out[i][2] = out[j][2] /\ p[i] < p[j]

\* The records of a report with every key parsed, current then delinquent.
ParsedRecords(va) ==
    [i \in 1..Len(Chain(va)) |->
        <<Pubkey_from_str(Chain(va)[i].node_pubkey).pk, Chain(va)[i].activated_stake>>]

ExampleReport ==
    [current    |-> <<[node_pubkey |-> "A", activated_stake |-> u64(100)],
                      [node_pubkey |-> "B", activated_stake |-> u64(300)]>>,
     delinquent |-> <<[node_pubkey |-> "C", activated_stake |-> u64(300)]>>]

ExampleRanking == <<<<2, u64(300)>>, <<3, u64(300)>>, <<1, u64(100)>>>>

ExampleSummary ==
    [total_stakes |-> u64(700), min_stakes |-> u64(100), max_stakes |-> u64(300)]

\* C6: the sequence an update installs is its report's records, current then
\* delinquent, rearranged so that greater stakes come first and records of
\* equal stake keep their input order; for current [(A,100),(B,300)] and
\* delinquent [(C,300)] it is [(B,300),(C,300),(A,100)] with summary total 700,
\* min 100, max 300.
C6_StableRankingInstalled ==
    [][write_stakes_desc("u1") =>
          /\ StableRanking(data'.stakes_desc, ParsedRecords(up["u1"].vote_accounts))
          /\ up["u1"].vote_accounts = ExampleReport =>
                /\ data'.stakes_desc = ExampleRanking
                /\ data'.summary = ExampleSummary]_vars

\* C6 witness: the call with the example report has sorted its records and
\* assigned the summary; only the assignment of the sequence is left.
C6_Witness ==
    /\ up["u1"].pc = "write_stakes_desc"
    /\ up["u1"].vote_accounts = ExampleReport
    /\ up["u1"].stakes_desc = ExampleRanking
    /\ data.summary = ExampleSummary


\* C7: get_identity_stakes returns, when own_identity is a key of the mapping,
\* peer type Staked with the owner's stake and the total, min and max of the
\* summary; when it is no key, peer type Unstaked with stake, total, min and
\* max all 0, whatever the summary holds.
C7_OwnStakeByPresence ==
    [][\A r \in Readers :
          (Returns(r) /\ rd[r].op = "get_identity_stakes") =>
              LET v == rd'[r].ret.value
              IN  IF own_identity \in DOMAIN data.identity_to_stake
                  THEN /\ v.peer_type = "Staked"
                       /\ v.stakes = data.identity_to_stake[own_identity]
                       /\ v.total_stakes = data.summary.total_stakes
                       /\ v.min_stakes = data.summary.min_stakes
                       /\ v.max_stakes = data.summary.max_stakes
                  ELSE /\ v.peer_type = "Unstaked"
                       /\ v.stakes = U64_ZERO
                       /\ v.total_stakes = U64_ZERO
                       /\ v.min_stakes = U64_ZERO
                       /\ v.max_stakes = U64_ZERO]_vars

\* C7 witness: get_identity_stakes has returned the default although the
\* snapshot holds another key and a total of 100.
C7_Witness ==
    \E r \in Readers :
        /\ rd[r].ret.op = "get_identity_stakes"
        /\ rd[r].ret.value = IdentityStakesData_default
        /\ Observable
        /\ own_identity \notin DOMAIN data.identity_to_stake
        /\ data.summary.total_stakes = u64(100)

\* C8: get_node_stake(identity) returns None when identity is no key of the
\* mapping and Some of the mapping's value when it is, and changes neither the
\* snapshot nor any update in progress.
C8_NodeStakeLookup ==
    [][\A r \in Readers :
          (Returns(r) /\ rd[r].op = "get_node_stake") =>
              /\ rd'[r].ret.value =
                    IF rd[r].arg \in DOMAIN data.identity_to_stake
                    THEN Some(data.identity_to_stake[rd[r].arg])
                    ELSE None
              /\ data' = data
              /\ installed' = installed
              /\ up' = up]_vars

\* C8 witness: get_node_stake has returned None for key 2, which no report
\* carries, from a snapshot whose mapping holds key 1.
C8_Witness ==
    /\ \E r \in Readers :
          /\ rd[r].ret.op = "get_node_stake"
          /\ rd[r].ret.arg = 2
          /\ rd[r].ret.value = None
    /\ Observable
    /\ up["u1"].status = "ok"
    /\ DOMAIN data.identity_to_stake = {1}

\* C9: the call of update_stakes with both collections empty completes, and
\* when it has, the summary is all 0 and the mapping and the sequence are
\* empty, whatever was installed before.
C9_EmptyReportInstallsEmpty ==
    [][update_stakes("u1", NoReport) =>
              /\ up'["u1"].pc = "data_write"
              /\ up'["u1"].vote_accounts = NoReport]_vars
    /\ [][(write_stakes_desc("u1") /\ Chain(up["u1"].vote_accounts) = <<>>) =>
              /\ data'.summary.total_stakes = U64_ZERO
              /\ data'.summary.min_stakes = U64_ZERO
              /\ data'.summary.max_stakes = U64_ZERO
              /\ data'.identity_to_stake = EmptyMap
              /\ data'.stakes_desc = <<>>
              /\ up'["u1"].status = "ok"]_vars

\* C9 witness: an update has completed and left the snapshot empty after a
\* reader copied a non-empty mapping out of an earlier one.
C9_Witness ==
    /\ up["u1"].status = "ok"
    /\ Observable
    /\ data = StakeData_default
    /\ \E r \in Readers :
          /\ rd[r].ret.op = "get_stake_per_node"
          /\ rd[r].ret.value # EmptyMap

\* C10: as long as no update_stakes call has completed on a store made by
\* new, get_summary returns 0 for total, min and max, get_stake_per_node and
\* get_all_stakes_desc return empty collections, get_node_stake returns None
\* and get_identity_stakes returns the default.
C10_NewStoreIsEmpty ==
    [][\A r \in Readers :
          (Returns(r) /\ installed.by = "new") =>
              LET v == rd'[r].ret.value
              IN  CASE rd[r].op = "get_summary" ->
                          /\ v.total_stakes = U64_ZERO
                          /\ v.min_stakes = U64_ZERO
                          /\ v.max_stakes = U64_ZERO
                    [] rd[r].op = "get_identity_stakes" ->
                          /\ v.peer_type = "Unstaked"
                          /\ v.stakes = U64_ZERO
                          /\ v.total_stakes = U64_ZERO
                          /\ v.min_stakes = U64_ZERO
                          /\ v.max_stakes = U64_ZERO
                    [] rd[r].op = "get_node_stake" -> v = None
                    [] rd[r].op = "get_stake_per_node" -> DOMAIN v = {}
                    [] rd[r].op = "get_all_stakes_desc" -> Len(v) = 0]_vars

\* C10 witness: before any update has completed, and after one call returned
\* on a bad pubkey, get_identity_stakes has returned the default.
C10_Witness ==
    /\ installed.by = "new"
    /\ up["u1"].status = "bad_pubkey"
    /\ \E r \in Readers :
          /\ rd[r].ret.op = "get_identity_stakes"
          /\ rd[r].ret.value = IdentityStakesData_default


\* The tasks calling update_stakes that wait in the queue in front of place i.
WritersAhead(i) == {j \in 1..(i - 1) : lock.waiters[j] \in Updaters}

\* C11: read operations do not block each other: a read that asks for read
\* access while no task holds write access and no updater waits for it gets
\* read access at once, whichever readers hold read access then; and a reader
\* in the queue is there behind a task that holds or waits for write access.
C11_ReadersShareAccess ==
    /\ [][\A r \in Readers :
            (/\ rd[r].pc = "idle" /\ rd'[r].pc = "read"
             /\ lock.writer = None
             /\ WritersAhead(Len(lock.waiters) + 1) = {}) => r \in lock'.readers]_vars
    /\ [](\A i \in 1..Len(lock.waiters) :
            lock.waiters[i] \in Readers =>
                lock.writer # None \/ WritersAhead(i) # {})

\* C11 witness: both readers hold read access at once, in different
\* operations.
C11_Witness ==
    /\ lock.readers = Readers
    /\ rd["r1"].op = "get_summary"
    /\ rd["r2"].op = "get_identity_stakes"


\* Task p is in the queue of the lock.
Waits(p) == \E i \in 1..Len(lock.waiters) : lock.waiters[i] = p

WritePcs == {"write_summary", "write_identity_to_stake", "write_stakes_desc"}

\* C12: under fair scheduling every call of update_stakes and every read
\* returns.  In every reachable state a task inside an operation can either
\* take its next step or is in the queue of the lock, and when a task is in
\* the queue another task, itself able to step, holds the lock: no deadlock,
\* and nothing is waited on except the lock.
C12_EveryCallReturns ==
    /\ [](/\ \A u \in Updaters :
               \/ up[u].pc \in {"idle", "data_write"}
               \/ up[u].pc \in WritePcs /\ (lock.writer = Some(u) \/ Waits(u))
          /\ \A r \in Readers : rd[r].pc = "read" => (r \in lock.readers \/ Waits(r))
          /\ lock.waiters # <<>> => (lock.writer # None \/ lock.readers # {})
          /\ \A u \in Updaters : lock.writer = Some(u) => up[u].pc \in WritePcs
          /\ \A r \in lock.readers : rd[r].pc = "read")
    /\ \A u \in Updaters : (up[u].pc # "idle") ~> (up[u].pc = "idle")
    /\ \A r \in Readers : (rd[r].pc = "read") ~> (rd[r].pc = "idle")

\* C12 witness: one task holds write access and the three others wait in the
\* queue.
C12_Witness ==
    /\ lock.writer # None
    /\ Len(lock.waiters) = 3


\* The locals of updater u as one StakeData.
Locals(u) ==
    [identity_to_stake |-> up[u].id_to_stake,
     stakes_desc       |-> up[u].stakes_desc,
     summary           |-> up[u].summary]

\* C13: a call of update_stakes has parsed, sorted, collected and summarised
\* its report before it asks for write access, and a call whose report does
\* not parse never asks; until it asks it neither holds nor waits for the
\* lock; while it holds write access its only steps are the assignments of
\* summary, identity_to_stake and stakes_desc from its locals, the last one
\* releasing; and a reader waits only while the call is past its request.
C13_ComputationBeforeLock ==
    /\ [](up["u1"].pc # "idle" =>
            /\ ~HasBadPubkey(up["u1"].vote_accounts)
            /\ Locals("u1") = StakeData_of(ParsedRecords(up["u1"].vote_accounts)))
    /\ [](up["u1"].pc \in {"idle", "data_write"} =>
            lock.writer # Some("u1") /\ ~Waits("u1"))
    /\ [](Waits("r1") => up["u1"].pc \in WritePcs)
    /\ [][(lock.writer = Some("u1") /\ up'["u1"] # up["u1"]) =>
            \/ /\ up["u1"].pc = "write_summary"
               /\ data' = [data EXCEPT !.summary = up["u1"].summary]
               /\ lock' = lock
            \/ /\ up["u1"].pc = "write_identity_to_stake"
               /\ data' = [data EXCEPT !.identity_to_stake = up["u1"].id_to_stake]
               /\ lock' = lock
            \/ /\ up["u1"].pc = "write_stakes_desc"
               /\ data' = [data EXCEPT !.stakes_desc = up["u1"].stakes_desc]
               /\ lock'.writer = None
               /\ up'["u1"].pc = "idle"]_vars

\* C13 witness: the reader holds read access while a call of update_stakes has
\* finished its computation of a non-empty snapshot and has not yet asked for
\* write access.
C13_Witness ==
    /\ up["u1"].pc = "data_write"
    /\ up["u1"].stakes_desc # <<>>
    /\ "r1" \in lock.readers


\* The places of seq that hold a record of key k.
Occurrences(seq, k) == {i \in 1..Len(seq) : seq[i][1] = k}

Last(S) == CHOOSE i \in S : \A j \in S : j <= i

\* Key A twice: in current with stake 300 and in delinquent with stake 100.
DuplicateReport ==
    [current    |-> <<[node_pubkey |-> "A", activated_stake |-> u64(300)],
                      [node_pubkey |-> "B", activated_stake |-> u64(100)]>>,
     delinquent |-> <<[node_pubkey |-> "A", activated_stake |-> u64(100)]>>]

\* C14: a report that names a key more than once is not rejected (the one
\* with A at 300 and at 100 goes on to the lock), and when a call completes,
\* for every key of its report the installed sequence holds each of the
\* key's records as often as the report does, while the mapping holds the key
\* once, with the stake of the key's last record in the installed sequence,
\* which is the smallest stake the report gives for the key.
C14_DuplicatesKeptInSequence ==
    /\ [][update_stakes("u1", DuplicateReport) => up'["u1"].pc = "data_write"]_vars
    /\ [][write_stakes_desc("u1") =>
            LET recs == ParsedRecords(up["u1"].vote_accounts)
                desc == data'.stakes_desc
                m    == data'.identity_to_stake
            IN  /\ up'["u1"].status = "ok"
                /\ \A k \in Pubkeys :
                      Occurrences(recs, k) # {} =>
                          /\ \A st \in StakesFn :
                                Cardinality({i \in Occurrences(desc, k) : desc[i][2] = st})
                                  = Cardinality({i \in Occurrences(recs, k) : recs[i][2] = st})
                          /\ k \in DOMAIN m
                          /\ m[k] = desc[Last(Occurrences(desc, k))][2]
                          /\ \A i \in Occurrences(recs, k) : u64_le(m[k], recs[i][2])]_vars

\* C14 witness: the call with A at 300 and at 100 has completed: the sequence
\* holds both records of A, the mapping holds A once, at 100.
C14_Witness ==
    /\ Observable
    /\ up["u1"].status = "ok"
    /\ data.stakes_desc = <<<<1, u64(300)>>, <<2, u64(100)>>, <<1, u64(100)>>>>
    /\ DOMAIN data.identity_to_stake = {1, 2}
    /\ data.identity_to_stake[1] = u64(100)


\* The keys a report carries.
ReportKeys(va) == {ParsedRecords(va)[i][1] : i \in 1..Len(Chain(va))}

\* C15: when a call of update_stakes completes, the snapshot is the one
\* computed from its report alone, in all three fields, whatever was there
\* before: a key of the earlier snapshot that the report does not carry is no
\* key of the mapping (get_node_stake gives None for it), has no record in the
\* sequence, and the summary is that of the new mapping.
C15_SnapshotReplacedWholesale ==
    [][\A u \in Updaters :
          write_stakes_desc(u) =>
              /\ data' = StakeData_of(ParsedRecords(up[u].vote_accounts))
              /\ \A k \in DOMAIN installed.data.identity_to_stake \ ReportKeys(up[u].vote_accounts) :
                    /\ k \notin DOMAIN data'.identity_to_stake
                    /\ NodeStake_of(data', k) = None
                    /\ Occurrences(data'.stakes_desc, k) = {}
              /\ data'.summary = StakeSummary_of(data'.identity_to_stake)]_vars

\* C15 witness: get_node_stake has returned the stake of key 1 from an earlier
\* snapshot; the snapshot installed since holds key 2 only.
C15_Witness ==
    /\ Observable
    /\ data = installed.data
    /\ DOMAIN data.identity_to_stake = {2}
    /\ rd["r1"].ret.op = "get_node_stake"
    /\ rd["r1"].ret.arg = 1
    /\ rd["r1"].ret.value = Some(u64(100))


\* C16: get_identity_stakes returns peer type Staked exactly when own_identity
\* is a key of the mapping, also when its stake there is 0; an owner with
\* stake 0 gets a result that differs from the default result, which is what
\* an owner absent from the mapping gets.
C16_ZeroStakeOwnerIsStaked ==
    [][(Returns("r1") /\ rd["r1"].op = "get_identity_stakes") =>
          LET v == rd'["r1"].ret.value
              m == data.identity_to_stake
          IN  /\ v.peer_type = "Staked" <=> own_identity \in DOMAIN m
              /\ (own_identity \in DOMAIN m /\ m[own_identity] = U64_ZERO) =>
                    /\ v.stakes = U64_ZERO
                    /\ v # IdentityStakesData_default
              /\ own_identity \notin DOMAIN m =>
                    /\ v = IdentityStakesData_default
                    /\ v.peer_type # "Staked"]_vars

\* C16 witness: get_identity_stakes has returned Staked with a stake of 0 and a
\* total of 0.
C16_Witness ==
    /\ rd["r1"].ret.op = "get_identity_stakes"
    /\ rd["r1"].ret.value.peer_type = "Staked"
    /\ rd["r1"].ret.value.stakes = U64_ZERO
    /\ rd["r1"].ret.value.total_stakes = U64_ZERO


\* C17: with two tasks calling update_stakes at overlapping times, whenever no
\* task holds write access (so also when all calls have returned) the
\* snapshot equals in all three fields the locals of one call, the one that
\* released write access last; only the task holding write access changes the
\* snapshot, a task is granted write access only on a snapshot that is whole,
\* and when it releases, the snapshot is its own locals in every field.
C17_LastWriterWins ==
    /\ [](Observable => data = installed.data)
    /\ [][\A u \in Updaters :
            /\ write_stakes_desc(u) =>
                  /\ lock.writer = Some(u)
                  /\ data' = Locals(u)
                  /\ installed' = [by |-> u, data |-> Locals(u)]
            /\ (lock.writer # Some(u) /\ lock'.writer = Some(u)) =>
                  data' = installed'.data
            /\ (data' # data /\ up'[u] = up[u]) => lock.writer # Some(u)]_vars
    /\ [][data' # data => lock.writer \in {Some(u) : u \in Updaters}]_vars

\* C17 witness: u1, which completed the last call, is in a new call and waits
\* for write access while u2 holds it with other locals and has assigned
\* summary and mapping, so that the stored fields are of different calls until
\* u2 assigns the sequence.
C17_Witness ==
    /\ lock.writer = Some("u2")
    /\ up["u2"].pc = "write_stakes_desc"
    /\ Waits("u1")
    /\ installed.by = "u1"
    /\ data.identity_to_stake = up["u2"].id_to_stake
    /\ data.stakes_desc # up["u2"].stakes_desc
    /\ up["u1"].id_to_stake # up["u2"].id_to_stake


\* C18: no stale reads.  A call of update_stakes that returns with success has
\* installed its snapshot in the step in which it returns; the installed
\* snapshot changes only when a call completes, and not while the reader holds
\* read access; and a read returns the value of the snapshot installed last at
\* the moment it returns.  So a read invoked after a call returned gives that
\* call's snapshot or one installed after it.
C18_NoStaleReads ==
    /\ [][\A u \in Updaters :
            (up[u].pc # "idle" /\ up'[u].pc = "idle") =>
                /\ up'[u].status = "ok"
                /\ installed' = [by |-> u, data |-> Locals(u)]
                /\ data' = Locals(u)]_vars
    /\ [][installed' # installed => \E u \in Updaters : write_stakes_desc(u)]_vars
    /\ [][("r1" \in lock.readers /\ rd["r1"].pc = "read") =>
            /\ installed' = installed
            /\ data' = data
            /\ data = installed.data
            /\ Returns("r1") =>
                  rd'["r1"].ret.value = NodeStake_of(installed.data, rd["r1"].arg)]_vars

\* C18 witness: both updaters have returned with success, u2 last, and
\* get_node_stake has returned the stake of key 2 from the snapshot installed
\* last, which holds key 2 only.
C18_Witness ==
    /\ up["u1"].status = "ok" /\ up["u1"].pc = "idle"
    /\ up["u2"].status = "ok" /\ up["u2"].pc = "idle"
    /\ installed.by = "u2"
    /\ rd["r1"].ret.op = "get_node_stake"
    /\ rd["r1"].ret.arg = 2
    /\ rd["r1"].ret.value = Some(u64(100))
    /\ rd["r1"].ret.value = NodeStake_of(installed.data, 2)
    /\ DOMAIN installed.data.identity_to_stake = {2}


\* C19: in every snapshot a reader can observe, the keys of identity_to_stake
\* are the keys that occur in stakes_desc, and a key that occurs once in
\* stakes_desc has in the mapping the stake of that record; and the sequence
\* a call installs is as long as its report, current and delinquent together.
C19_MappingAndSequenceAgree ==
    /\ [](Observable =>
            LET desc == data.stakes_desc
                m    == data.identity_to_stake
            IN  /\ DOMAIN m = {desc[i][1] : i \in 1..Len(desc)}
                /\ \A i \in 1..Len(desc) :
                      Occurrences(desc, desc[i][1]) = {i} => m[desc[i][1]] = desc[i][2])
    /\ [][write_stakes_desc("u1") =>
            Len(data'.stakes_desc) =
                Len(up["u1"].vote_accounts.current) + Len(up["u1"].vote_accounts.delinquent)]_vars

\* C19 witness: an installed snapshot whose sequence has three records over
\* two keys, the key that occurs once being there with stake 2^63.
C19_Witness ==
    /\ Observable
    /\ up["u1"].status = "ok"
    /\ Len(data.stakes_desc) = 3
    /\ Cardinality(DOMAIN data.identity_to_stake) = 2
    /\ \E i \in 1..3 :
          /\ Occurrences(data.stakes_desc, data.stakes_desc[i][1]) = {i}
          /\ data.identity_to_stake[data.stakes_desc[i][1]] = U64_HALF


\* C20: in every snapshot a reader can observe whose mapping is not empty,
\* min_stakes <= max_stakes <= total_stakes, and no call of update_stakes is
\* aborted by its summation.
C20_SummaryOrdered ==
    /\ (Observable /\ DOMAIN data.identity_to_stake # {}) =>
          /\ u64_le(data.summary.min_stakes, data.summary.max_stakes)
          /\ u64_le(data.summary.max_stakes, data.summary.total_stakes)
    /\ \A u \in Updaters : up[u].status # "panicked"

====
